---- MODULE Spec2Model ----
(***************************************************************************)
(* Document-Processing-System: the document router (upload, embed, query,  *)
(* delete over the in-memory stores) and the document processor (text      *)
(* extraction, e-mail extraction, chunking).                               *)
(*                                                                         *)
(* Texts are sequences of one-character strings.  Floating-point values    *)
(* are integers in tenths (2.0 is 20, 0.5 is 5, 0.0 is 0).                 *)
(***************************************************************************)
EXTENDS Integers, Sequences, FiniteSets, TLC

VARIABLES
    document_store,   \* router: document_id -> metadata
    document_chunks,  \* router: document_id -> list of chunks
    index,            \* the vector index behind embedding_service
    index_up,         \* whether the vector index is reachable
    deleted,          \* history: ids for which delete_document succeeded
    next_id,          \* number of document ids generated so far
    last,             \* the response to the latest request
    input,            \* argument of the document-processor function under check
    output            \* its result

vars == <<document_store, document_chunks, index, index_up, deleted, next_id,
          last, input, output>>

----------------------------------------------------------------------------
(* Bounds *)

\* chunk_size and chunk_overlap are 1000 and 200 in the source; the model
\* scales them down, keeping chunk_overlap < chunk_size.
chunk_size == 4
chunk_overlap == 1
MaxTextLen == 5
MaxParts == 2
MaxDocs == 2

\* top_k passed by query_document to search_similar
top_k == 5

Alphabet == {"a", " ", "\n"}

RECURSIVE SeqsUpTo(_, _)
SeqsUpTo(S, n) ==
    IF n = 0 THEN {<<>>}
    ELSE LET shorter == SeqsUpTo(S, n - 1)
         IN shorter \cup {Append(s, x) : s \in {t \in shorter : Len(t) = n - 1}, x \in S}

Texts == SeqsUpTo(Alphabet, MaxTextLen)

RECURSIVE Concat(_)
Concat(seqs) == IF seqs = <<>> THEN <<>> ELSE Head(seqs) \o Concat(Tail(seqs))

----------------------------------------------------------------------------
(* The text splitter configured in DocumentProcessor.__init__:             *)
(* RecursiveCharacterTextSplitter(chunk_size, chunk_overlap, len,          *)
(* separators = ["\n\n", "\n", " ", ""]), separators kept at the start of  *)
(* the piece that follows them, chunks stripped of surrounding whitespace. *)

separators == << <<"\n", "\n">>, <<"\n">>, <<" ">>, <<>> >>

MatchesAt(s, sep, i) ==
    /\ i + Len(sep) - 1 <= Len(s)
    /\ \A k \in 1..Len(sep) : s[i + k - 1] = sep[k]

Contains(s, sep) == \E i \in 1..Len(s) : MatchesAt(s, sep, i)

RECURSIVE SplitScan(_, _, _, _)
SplitScan(s, sep, i, cur) ==
    IF i > Len(s) THEN <<cur>>
    ELSE IF MatchesAt(s, sep, i)
         THEN <<cur>> \o SplitScan(s, sep, i + Len(sep), sep)
         ELSE SplitScan(s, sep, i + 1, Append(cur, s[i]))

split_text_with_regex(s, sep) ==
    IF sep = <<>> THEN [i \in 1..Len(s) |-> <<s[i]>>]
    ELSE SelectSeq(SplitScan(s, sep, 1, <<>>), LAMBDA p : p # <<>>)

IsSpace(c) == c \in {" ", "\n"}

RECURSIVE strip(_)
strip(t) ==
    IF t = <<>> THEN t
    ELSE IF IsSpace(Head(t)) THEN strip(Tail(t))
    ELSE IF IsSpace(t[Len(t)]) THEN strip(SubSeq(t, 1, Len(t) - 1))
    ELSE t

\* the joined, stripped chunk; nothing when it is empty
join_docs(docs) ==
    LET t == strip(Concat(docs)) IN IF t = <<>> THEN <<>> ELSE <<t>>

RECURSIVE Shrink(_, _, _)
Shrink(cur, total, len) ==
    IF total > chunk_overlap \/ (total + len > chunk_size /\ total > 0)
    THEN Shrink(Tail(cur), total - Len(Head(cur)), len)
    ELSE [cur |-> cur, total |-> total]

RECURSIVE MergeLoop(_, _, _, _)
MergeLoop(splits, cur, total, docs) ==
    IF splits = <<>> THEN docs \o join_docs(cur)
    ELSE LET d == Head(splits)
             len == Len(d)
         IN IF total + len > chunk_size /\ cur # <<>>
            THEN LET sh == Shrink(cur, total, len)
                 IN MergeLoop(Tail(splits), Append(sh.cur, d), sh.total + len,
                              docs \o join_docs(cur))
            ELSE MergeLoop(Tail(splits), Append(cur, d), total + len, docs)

merge_splits(splits) == MergeLoop(splits, <<>>, 0, <<>>)

FirstSeparator(text, k) ==
    CHOOSE j \in k..Len(separators) :
        /\ separators[j] = <<>> \/ Contains(text, separators[j])
        /\ \A m \in k..(j - 1) :
               ~(separators[m] = <<>> \/ Contains(text, separators[m]))

RECURSIVE SplitRec(_, _)
RECURSIVE SplitLoop(_, _, _, _)
SplitLoop(splits, good, final, j) ==
    LET flushed == final \o (IF good # <<>> THEN merge_splits(good) ELSE <<>>)
        hasMore == separators[j] # <<>> /\ j < Len(separators)
    IN IF splits = <<>> THEN flushed
       ELSE LET s == Head(splits)
            IN IF Len(s) < chunk_size
               THEN SplitLoop(Tail(splits), Append(good, s), final, j)
               ELSE SplitLoop(Tail(splits), <<>>,
                              flushed \o (IF hasMore THEN SplitRec(s, j + 1) ELSE <<s>>),
                              j)

SplitRec(text, k) ==
    LET j == FirstSeparator(text, k)
    IN SplitLoop(split_text_with_regex(text, separators[j]), <<>>, <<>>, j)

split_text(text) == SplitRec(text, 1)

----------------------------------------------------------------------------
(* DocumentProcessor *)

DocIds == 1..MaxDocs

\* enumerate(chunks) starting at 1 instead of 0
chunk_text_from_one(text, document_id) ==
    LET chunks == split_text(text)
    IN [i \in 1..Len(chunks) |->
           [page_content |-> chunks[i], document_id |-> document_id,
            chunk_id |-> i, chunk_index |-> i, total_chunks |-> Len(chunks)]]

chunk_text(text, document_id) ==
    LET chunks == split_text(text)
    IN [i \in 1..Len(chunks) |->
           [page_content |-> chunks[i], document_id |-> document_id,
            chunk_id |-> i - 1, chunk_index |-> i - 1, total_chunks |-> Len(chunks)]]

Raise(message) == [ok |-> FALSE, error |-> message]

\* a PDF's content: whether pypdf can read it, and the text of each page
process_pdf(content) ==
    IF ~content.readable THEN Raise("Error processing PDF")
    ELSE [ok |-> TRUE,
          text |-> Concat([i \in 1..Len(content.pages) |-> content.pages[i] \o <<"\n">>])]

\* a DOCX's content: whether python-docx can read it, and its paragraphs
process_docx(content) ==
    IF ~content.readable THEN Raise("Error processing DOCX")
    ELSE [ok |-> TRUE,
          text |-> Concat([i \in 1..Len(content.paragraphs) |->
                              content.paragraphs[i] \o <<"\n">>])]

(* E-mail messages.  A message is [subject, content_type, multipart,       *)
(* payload]; the payload of a multipart message is the list of its parts,  *)
(* the payload of any other message is a byte string.  Bytes are the       *)
(* characters themselves, except InvalidByte, which is not valid UTF-8.    *)

InvalidByte == "\\xff"

Decodable(bytes) == \A i \in 1..Len(bytes) : bytes[i] # InvalidByte

RECURSIVE walk(_)
walk(msg) ==
    IF msg.multipart
    THEN <<msg>> \o Concat([i \in 1..Len(msg.payload) |-> walk(msg.payload[i])])
    ELSE <<msg>>

SubjectLine(subject) ==
    <<"S", "u", "b", "j", "e", "c", "t", ":", " ">> \o subject \o <<"\n", "\n">>

\* the top-level payload as text: the byte string of a message that is not
\* multipart; for a multipart message the list of its parts, one token each
TopLevelPayloadText(msg) ==
    IF msg.multipart THEN [i \in 1..Len(msg.payload) |-> "<part>"] ELSE msg.payload

\* the multipart loop falling back to the top-level payload when no part is
\* text/plain
process_email_fallback(msg) ==
    LET head == SubjectLine(msg.subject)
        plain == SelectSeq(walk(msg), LAMBDA p : p.content_type = "text/plain")
    IN IF msg.multipart
       THEN IF plain = <<>>
            THEN [ok |-> TRUE, text |-> head \o TopLevelPayloadText(msg)]
            ELSE IF Decodable(plain[1].payload)
                 THEN [ok |-> TRUE, text |-> head \o plain[1].payload]
                 ELSE Raise("Error processing email")
       ELSE IF Decodable(msg.payload)
            THEN [ok |-> TRUE, text |-> head \o msg.payload]
            ELSE Raise("Error processing email")

process_email(msg) ==
    LET head == SubjectLine(msg.subject)
        plain == SelectSeq(walk(msg), LAMBDA p : p.content_type = "text/plain")
    IN IF msg.multipart
       THEN IF plain = <<>>
            THEN [ok |-> TRUE, text |-> head]
            ELSE IF Decodable(plain[1].payload)
                 THEN [ok |-> TRUE, text |-> head \o plain[1].payload]
                 ELSE Raise("Error processing email")
       ELSE IF Decodable(msg.payload)
            THEN [ok |-> TRUE, text |-> head \o msg.payload]
            ELSE Raise("Error processing email")

\* document_id is the uuid4 generated on entry
process_document(file, file_type, document_id) ==
    LET result ==
            IF file_type = "pdf" THEN process_pdf(file.content)
            ELSE IF file_type \in {"docx", "doc"} THEN process_docx(file.content)
            ELSE IF file_type \in {"eml", "email"} THEN process_email(file.content)
            ELSE Raise("Unsupported file type")
    IN IF ~result.ok THEN result
       ELSE LET chunks == chunk_text(result.text, document_id)
            IN [ok |-> TRUE, document_id |-> document_id, filename |-> file.filename,
                file_type |-> file_type, text |-> result.text, chunks |-> chunks,
                total_chunks |-> Len(chunks)]

----------------------------------------------------------------------------
(* Inputs of the document-processor checks *)

LeafParts ==
    { [content_type |-> "text/plain", multipart |-> FALSE, payload |-> <<"p">>],
      [content_type |-> "text/plain", multipart |-> FALSE, payload |-> <<"q">>],
      [content_type |-> "text/html", multipart |-> FALSE, payload |-> <<"h">>],
      [content_type |-> "text/plain", multipart |-> FALSE, payload |-> <<InvalidByte>>] }

NestedParts ==
    { [content_type |-> "multipart/alternative", multipart |-> TRUE, payload |-> ps] :
        ps \in {<<a>> : a \in LeafParts} \cup {<<a, b>> : a \in LeafParts, b \in LeafParts} }

PartLists == SeqsUpTo(LeafParts \cup NestedParts, MaxParts) \ {<<>>}

Subjects == {<<>>, <<"s">>}

Messages ==
    { [subject |-> s, content_type |-> "multipart/mixed", multipart |-> TRUE,
       payload |-> ps] : s \in Subjects, ps \in PartLists }
    \cup
    { [subject |-> s, content_type |-> l.content_type, multipart |-> FALSE,
       payload |-> l.payload] : s \in Subjects, l \in LeafParts }

NotRun == [done |-> FALSE]

----------------------------------------------------------------------------
(* Collaborators of the router whose code is not in the repository         *)
(* snapshot: FileUtils, EmbeddingService, LLMService.                      *)

AllowedExtensions == {"pdf", "docx", "doc", "eml", "email"}

validate_file(file) ==
    IF file.extension \in AllowedExtensions
    THEN [ok |-> TRUE, value |-> file.extension]
    ELSE Raise("File type not allowed")

get_file_type_from_extension(file_extension) == file_extension

DocTypes == {"known", "unknown"}

\* a vector of the index with its metadata
Vector(chunk, document_type) ==
    [document_id |-> chunk.document_id, chunk_index |-> chunk.chunk_index,
     text |-> chunk.page_content, document_type |-> document_type]

\* a vector written by an earlier run of the service, whose metadata has no text
LegacyVector ==
    [document_id |-> 0, chunk_index |-> 0, text |-> <<>>, document_type |-> "unknown"]

SameKey(v, w) == v.document_id = w.document_id /\ v.chunk_index = w.chunk_index

\* upsert of one vector per chunk, tagged with the document type
store_embeddings(idx, up, chunks, document_type) ==
    IF ~up THEN Raise("Error storing embeddings")
    ELSE LET new == {Vector(chunks[i], document_type) : i \in 1..Len(chunks)}
         IN [ok |-> TRUE,
             index |-> {v \in idx : \A w \in new : ~SameKey(v, w)} \cup new,
             vectors_stored |-> Len(chunks)]

RankedBefore(v, w) ==
    \/ v.document_id < w.document_id
    \/ v.document_id = w.document_id /\ v.chunk_index <= w.chunk_index

RECURSIVE Ranked(_)
Ranked(S) ==
    IF S = {} THEN <<>>
    ELSE LET v == CHOOSE x \in S : \A y \in S : RankedBefore(x, y)
         IN <<v>> \o Ranked(S \ {v})

\* the result lists search_similar may return: the top_k nearest of the
\* vectors carrying the document-type tag (all of them when there are no
\* more than top_k; which ones depends on the question otherwise), and the
\* empty list when the index is unavailable
search_similar(idx, up, k, document_type) ==
    IF ~up THEN {<<>>}
    ELSE LET tagged == {v \in idx : v.document_type = document_type}
             n == IF Cardinality(tagged) < k THEN Cardinality(tagged) ELSE k
         IN {Ranked(S) : S \in {T \in SUBSET tagged : Cardinality(T) = n}}

question_weight == 20

document_weight(document_type) == IF document_type = "unknown" THEN 20 ELSE 5

\* what the language-capability provider answers: it fails, or it cites
\* the best-ranked context chunks up to some rank, possibly followed by a
\* clause of its own invention
Fabricated == <<"f">>

ProviderReplies(context_chunks) ==
    {[ok |-> FALSE]}
    \cup
    { [ok |-> TRUE, cited |-> SubSeq(context_chunks, 1, n) \o extra, level |-> 10] :
        n \in 0..Len(context_chunks), extra \in {<<>>, <<Fabricated>>} }

\* the synthesizer keeps the cited clauses that are context chunks and
\* scores with the weight table
generate_answer(context_chunks, document_type, reply) ==
    IF ~reply.ok THEN Raise("Error generating answer")
    ELSE [ok |-> TRUE,
          answer |-> "generated",
          justification |-> "generated",
          matched_clauses |->
              SelectSeq(reply.cited,
                        LAMBDA c : \E i \in 1..Len(context_chunks) : context_chunks[i] = c),
          score_details |-> [document_type |-> document_type,
                             question_weight |-> question_weight,
                             document_weight |-> document_weight(document_type),
                             score |-> reply.level],
          confidence |-> reply.level]

----------------------------------------------------------------------------
(* The router: src/routers/document_router.py *)

\* a response: the operation, its request, the HTTP status, the body, and
\* what the handler saw and did while running (history)
Response(op, request, status, body, trace) ==
    [op |-> op, request |-> request, status |-> status, body |-> body, trace |-> trace]

\* str() of an HTTPException
HTTPExceptionStr(status_code, detail) ==
    IF status_code = 404 /\ detail = "Document not found"
    THEN "404: Document not found"
    ELSE "404: Document chunks not found"

\* "except Exception as e: raise HTTPException(status_code=500, detail=str(e))"
InternalError(message) == [status |-> 500, body |-> [detail |-> message]]

NoTrace == [none |-> TRUE]

Put(f, k, v) == [x \in DOMAIN f \cup {k} |-> IF x = k THEN v ELSE f[x]]

Remove(f, k) == [x \in DOMAIN f \ {k} |-> f[x]]

Metadata(result) ==
    [filename |-> result.filename, file_type |-> result.file_type,
     total_chunks |-> result.total_chunks, document_type |-> "unknown"]

\* the metadata written before the document is processed, and kept when
\* processing fails
upload_document_store_first(store, chunks, file, document_id) ==
    LET extension == validate_file(file)
        result == IF extension.ok
                  THEN process_document(file, get_file_type_from_extension(extension.value),
                                        document_id)
                  ELSE extension
        early == Put(store, document_id,
                     [filename |-> file.filename, file_type |-> file.extension,
                      total_chunks |-> 0, document_type |-> "unknown"])
    IN IF ~result.ok
       THEN [response |-> InternalError(result.error),
             document_store |-> early, document_chunks |-> chunks]
       ELSE [response |-> [status |-> 200,
                           body |-> [filename |-> result.filename,
                                     document_id |-> result.document_id,
                                     status |-> "success",
                                     chunks_created |-> result.total_chunks]],
             document_store |-> Put(store, result.document_id, Metadata(result)),
             document_chunks |-> Put(chunks, result.document_id, result.chunks)]

upload_document(store, chunks, file, document_id) ==
    LET extension == validate_file(file)
        result == IF extension.ok
                  THEN process_document(file, get_file_type_from_extension(extension.value),
                                        document_id)
                  ELSE extension
    IN IF ~result.ok
       THEN [response |-> InternalError(result.error),
             document_store |-> store, document_chunks |-> chunks]
       ELSE [response |-> [status |-> 200,
                           body |-> [filename |-> result.filename,
                                     document_id |-> result.document_id,
                                     status |-> "success",
                                     chunks_created |-> result.total_chunks]],
             document_store |-> Put(store, result.document_id, Metadata(result)),
             document_chunks |-> Put(chunks, result.document_id, result.chunks)]

embed_document(store, chunks, idx, up, request) ==
    IF request.document_id \notin DOMAIN store
    THEN [response |-> InternalError(HTTPExceptionStr(404, "Document not found")),
          index |-> idx]
    ELSE IF request.document_id \notin DOMAIN chunks
    THEN [response |-> InternalError(HTTPExceptionStr(404, "Document chunks not found")),
          index |-> idx]
    ELSE LET result == store_embeddings(idx, up, chunks[request.document_id],
                                        request.document_type)
         IN IF ~result.ok
            THEN [response |-> InternalError(result.error), index |-> idx]
            ELSE [response |-> [status |-> 200,
                                body |-> [document_id |-> request.document_id,
                                          status |-> "success",
                                          chunks_processed |-> result.vectors_stored,
                                          vectors_stored |-> result.vectors_stored]],
                  index |-> result.index]

\* the weight table read the wrong way round
NoInformation_swapped(document_type) ==
    [answer |-> "No relevant information found in the uploaded documents for your question.",
     justification |-> "The search did not return any relevant document chunks for your query.",
     matched_clauses |-> <<>>,
     score_details |-> [document_type |-> document_type,
                        question_weight |-> question_weight,
                        document_weight |-> IF document_type = "unknown" THEN 5 ELSE 20,
                        score |-> 0],
     confidence |-> 0]

NoInformation(document_type) ==
    [answer |-> "No relevant information found in the uploaded documents for your question.",
     justification |-> "The search did not return any relevant document chunks for your query.",
     matched_clauses |-> <<>>,
     score_details |-> [document_type |-> document_type,
                        question_weight |-> question_weight,
                        document_weight |-> IF document_type = "unknown" THEN 20 ELSE 5,
                        score |-> 0],
     confidence |-> 0]

ContextChunks(search_results) ==
    LET nonempty == SelectSeq(search_results, LAMBDA r : r.text # <<>>)
    IN [i \in 1..Len(nonempty) |-> nonempty[i].text]

Answered(llm_response) ==
    [status |-> 200,
     body |-> [answer |-> llm_response.answer,
               justification |-> llm_response.justification,
               matched_clauses |-> llm_response.matched_clauses,
               score_details |-> llm_response.score_details,
               confidence |-> llm_response.confidence],
     llm_called |-> TRUE]

\* the empty-context branch left out: the synthesizer is always called
query_document_always_llm(request, search_results, reply) ==
    LET context_chunks == ContextChunks(search_results)
        llm_response == generate_answer(context_chunks, request.document_type, reply)
    IN IF ~llm_response.ok
       THEN InternalError(llm_response.error) @@ [llm_called |-> TRUE]
       ELSE Answered(llm_response)

\* the empty-context branch raising, as the other handlers do for a missing
\* document
query_document_raises_on_empty(request, search_results, reply) ==
    LET context_chunks == ContextChunks(search_results)
    IN IF context_chunks = <<>>
       THEN InternalError("404: No relevant documents") @@ [llm_called |-> FALSE]
       ELSE LET llm_response == generate_answer(context_chunks, request.document_type, reply)
            IN IF ~llm_response.ok
               THEN InternalError(llm_response.error) @@ [llm_called |-> TRUE]
               ELSE Answered(llm_response)

\* the response citing the text of every search hit instead of the
\* synthesizer's matched clauses
query_document_cites_hits(request, search_results, reply) ==
    LET context_chunks == ContextChunks(search_results)
    IN IF context_chunks = <<>>
       THEN [status |-> 200, body |-> NoInformation(request.document_type),
             llm_called |-> FALSE]
       ELSE LET llm_response == generate_answer(context_chunks, request.document_type, reply)
            IN IF ~llm_response.ok
               THEN InternalError(llm_response.error) @@ [llm_called |-> TRUE]
               ELSE Answered([llm_response EXCEPT !.matched_clauses =
                                 [k \in 1..Len(search_results) |-> search_results[k].text]])

\* search_results: what search_similar returned; reply: what the provider
\* answers if the synthesizer is called
query_document(request, search_results, reply) ==
    LET context_chunks == ContextChunks(search_results)
    IN IF context_chunks = <<>>
       THEN [status |-> 200, body |-> NoInformation(request.document_type),
             llm_called |-> FALSE]
       ELSE LET llm_response == generate_answer(context_chunks, request.document_type, reply)
            IN IF ~llm_response.ok
               THEN InternalError(llm_response.error) @@ [llm_called |-> TRUE]
               ELSE Answered(llm_response)

delete_document(store, document_id) ==
    IF document_id \notin DOMAIN store
    THEN [response |-> InternalError(HTTPExceptionStr(404, "Document not found")),
          document_store |-> store]
    ELSE [response |-> [status |-> 200,
                        body |-> [message |-> "Document deleted successfully"]],
          document_store |-> Remove(store, document_id)]

----------------------------------------------------------------------------
(* The service: requests arrive in any order; each handler runs to its     *)
(* response without yielding once it touches the stores.                   *)

UploadFiles ==
    { [filename |-> "a.pdf", extension |-> "pdf",
       content |-> [readable |-> TRUE, pages |-> << <<"a">> >>]],
      [filename |-> "b.pdf", extension |-> "pdf",
       content |-> [readable |-> TRUE, pages |-> << <<"a", "a", "a">>, <<"a", "a">> >>]],
      [filename |-> "empty.docx", extension |-> "docx",
       content |-> [readable |-> TRUE, paragraphs |-> <<>>]],
      [filename |-> "corrupt.pdf", extension |-> "pdf",
       content |-> [readable |-> FALSE, pages |-> <<>>]],
      [filename |-> "notes.txt", extension |-> "txt",
       content |-> [readable |-> TRUE, pages |-> <<>>]] }

NoRequest == Response("none", [none |-> TRUE], 0, [none |-> TRUE], NoTrace)

ProcessorIdle == input = [none |-> TRUE] /\ output = NotRun

Init ==
    /\ document_store = <<>>
    /\ document_chunks = <<>>
    /\ index \in {{}, {LegacyVector}}
    /\ index_up \in BOOLEAN
    /\ deleted = {}
    /\ next_id = 0
    /\ last = NoRequest
    /\ ProcessorIdle

\* the number of documents ever stored is bounded by MaxDocs
Upload ==
    /\ \E file \in UploadFiles :
          LET r == upload_document(document_store, document_chunks, file, next_id + 1)
          IN /\ r.response.status = 200 => next_id < MaxDocs
             /\ document_store' = r.document_store
             /\ document_chunks' = r.document_chunks
             /\ next_id' = IF r.response.status = 200 THEN next_id + 1 ELSE next_id
             /\ last' = Response("upload", [filename |-> file.filename],
                                 r.response.status, r.response.body, NoTrace)
    /\ UNCHANGED <<index, index_up, deleted, input, output>>

Embed ==
    /\ \E id \in DocIds, dt \in DocTypes :
          LET request == [document_id |-> id, document_type |-> dt]
              r == embed_document(document_store, document_chunks, index, index_up, request)
          IN /\ index' = r.index
             /\ last' = Response("embed", request, r.response.status, r.response.body,
                                 [known |-> id \in DOMAIN document_store])
    /\ UNCHANGED <<document_store, document_chunks, index_up, deleted, next_id,
                   input, output>>

Query ==
    /\ \E dt \in DocTypes :
          \E search_results \in search_similar(index, index_up, top_k, dt) :
             \E reply \in ProviderReplies(ContextChunks(search_results)) :
                LET request == [document_type |-> dt]
                    r == query_document(request, search_results, reply)
                IN last' = Response("query", request, r.status, r.body,
                                    [search_results |-> search_results,
                                     context_chunks |-> ContextChunks(search_results),
                                     llm_called |-> r.llm_called,
                                     cited |-> IF r.llm_called /\ reply.ok
                                               THEN reply.cited ELSE <<>>,
                                     index_up |-> index_up])
    /\ UNCHANGED <<document_store, document_chunks, index, index_up, deleted, next_id,
                   input, output>>

Delete ==
    /\ \E id \in DocIds :
          LET r == delete_document(document_store, id)
          IN /\ document_store' = r.document_store
             /\ deleted' = IF r.response.status = 200 THEN deleted \cup {id} ELSE deleted
             /\ last' = Response("delete", [document_id |-> id], r.response.status,
                                 r.response.body, [known |-> id \in DOMAIN document_store])
    /\ UNCHANGED <<document_chunks, index, index_up, next_id, input, output>>

\* the external vector index becomes unreachable, or reachable again
IndexAvailability ==
    /\ index_up' = ~index_up
    /\ UNCHANGED <<document_store, document_chunks, index, deleted, next_id, last,
                   input, output>>

Next == Upload \/ Embed \/ Query \/ Delete \/ IndexAvailability

Spec == Init /\ [][Next]_vars

----------------------------------------------------------------------------
(* The document processor's functions on every input within the bounds *)

RouterIdle ==
    /\ document_store = <<>>
    /\ document_chunks = <<>>
    /\ index = {}
    /\ index_up = TRUE
    /\ deleted = {}
    /\ next_id = 0
    /\ last = NoRequest

routerVars == <<document_store, document_chunks, index, index_up, deleted, next_id, last>>

InitChunk ==
    /\ RouterIdle
    /\ input \in {[text |-> t] : t \in Texts}
    /\ output = NotRun

ChunkText ==
    /\ ~output.done
    /\ \E id \in DocIds :
          output' = [done |-> TRUE, op |-> "chunk_text", document_id |-> id,
                     documents |-> chunk_text(input.text, id)]
    /\ UNCHANGED <<routerVars, input>>

\* the text arrives as the only page of a PDF or the only paragraph of a DOCX
ProcessDocument ==
    /\ ~output.done
    /\ \E id \in DocIds, file \in
             { [filename |-> "t.pdf", extension |-> "pdf",
                content |-> [readable |-> TRUE, pages |-> <<input.text>>]],
               [filename |-> "t.docx", extension |-> "docx",
                content |-> [readable |-> TRUE, paragraphs |-> <<input.text>>]] } :
          output' = [done |-> TRUE, op |-> "process_document", document_id |-> id,
                     result |-> process_document(file, file.extension, id)]
    /\ UNCHANGED <<routerVars, input>>

NextChunk == ChunkText \/ ProcessDocument

SpecChunk == InitChunk /\ [][NextChunk]_vars

InitEmail ==
    /\ RouterIdle
    /\ input \in Messages
    /\ output = NotRun

ProcessEmail ==
    /\ ~output.done
    /\ output' = [done |-> TRUE, result |-> process_email(input)]
    /\ UNCHANGED <<routerVars, input>>

NextEmail == ProcessEmail

SpecEmail == InitEmail /\ [][NextEmail]_vars

----------------------------------------------------------------------------
(* Properties of the router, checked under Spec *)

Stores == <<document_store, document_chunks>>

IsContextOf(clause, context_chunks) ==
    \E j \in 1..Len(context_chunks) : context_chunks[j] = clause

\* C1: once delete_document(id) has succeeded, no later query uses as
\* context (or returns as a matched clause) a chunk of document id, even
\* while the vectors of id are still in the index.
C1_DeletedNeverRetrieved ==
    (last.op = "query" /\ last.status = 200) =>
        \A i \in 1..Len(last.trace.search_results) :
            last.trace.search_results[i].text # <<>> =>
                last.trace.search_results[i].document_id \notin deleted

\* C2: a query whose search yields no non-empty hit is answered
\* successfully with score 0.0, confidence 0.0, no matched clause and the
\* fixed "No relevant information found..." text, and the synthesizer is
\* not called.
C2_EmptyRetrievalAnswer ==
    (last.op = "query" /\ last.trace.context_chunks = <<>>) =>
        /\ last.status = 200
        /\ last.body.score_details.score = 0
        /\ last.body.confidence = 0
        /\ last.body.matched_clauses = <<>>
        /\ last.body.answer =
              "No relevant information found in the uploaded documents for your question."
        /\ ~last.trace.llm_called

\* a query answered while the index held hits, every one with empty text
C2_Witness ==
    /\ last.op = "query"
    /\ last.trace.search_results # <<>>
    /\ last.trace.context_chunks = <<>>
    /\ last.status = 200

\* C3: embed_document and delete_document for an id that is not in the
\* metadata store end with status 404 and detail "Document not found".
C3_NotFoundIs404 ==
    (last.op \in {"embed", "delete"} /\ ~last.trace.known) =>
        /\ last.status = 404
        /\ last.body.detail = "Document not found"

C8_FailureKeepsStores ==
    [][(last'.status # 200 \/ last'.op \in {"embed", "query"})
          => UNCHANGED Stores]_vars

\* an upload that failed while a document was stored
C8_Witness ==
    /\ last.op = "upload"
    /\ last.status = 500
    /\ DOMAIN document_store # {}

\* C10: the metadata store and the chunk store hold the same document ids,
\* and each chunk list has the length its metadata records.
C10_StoresAgree ==
    /\ DOMAIN document_store = DOMAIN document_chunks
    /\ \A id \in DOMAIN document_store :
          Len(document_chunks[id]) = document_store[id].total_chunks

----------------------------------------------------------------------------
(* Properties of the document processor *)

WellIndexed(documents, document_id) ==
    \A k \in 1..Len(documents) :
        /\ documents[k].chunk_index = k - 1
        /\ documents[k].total_chunks = Len(documents)
        /\ documents[k].document_id = document_id

\* C7 (under SpecChunk): the chunks of one document carry the indices
\* 0, 1, ..., n-1 in order, each with total_chunks = n and the owning
\* document id; process_document reports total_chunks = n; an empty split
\* gives no chunk.
C7_ChunkIndices ==
    output.done =>
        /\ output.op = "chunk_text" =>
              /\ WellIndexed(output.documents, output.document_id)
              /\ Len(output.documents) = Len(split_text(input.text))
        /\ (output.op = "process_document" /\ output.result.ok) =>
              /\ WellIndexed(output.result.chunks, output.document_id)
              /\ output.result.document_id = output.document_id
              /\ output.result.total_chunks = Len(output.result.chunks)

\* a document processed into at least two chunks
C7_Witness ==
    /\ output.done
    /\ output.op = "process_document"
    /\ output.result.ok
    /\ output.result.total_chunks >= 2

\* the payload of the first text/plain part of a list of parts, depth
\* first; no payload when there is none
RECURSIVE FirstPlain(_)
FirstPlain(parts) ==
    IF parts = <<>> THEN <<>>
    ELSE LET part == Head(parts)
             inner == IF part.multipart THEN FirstPlain(part.payload) ELSE <<>>
         IN IF part.content_type = "text/plain" THEN <<part.payload>>
            ELSE IF inner # <<>> THEN inner
            ELSE FirstPlain(Tail(parts))

\* C9 as stated (under SpecEmail): the text is the subject line followed
\* by the first text/plain part of a multipart message, by the top-level
\* payload when a multipart message has no text/plain part, and by the
\* top-level payload of a message that is not multipart.
C9_FallsBackToTopLevelPayload ==
    (output.done /\ output.result.ok) =>
        output.result.text =
            SubjectLine(input.subject) \o
                (IF input.multipart /\ FirstPlain(input.payload) # <<>>
                 THEN FirstPlain(input.payload)[1]
                 ELSE TopLevelPayloadText(input))

\* C9 amended (under SpecEmail): whenever process_email returns, the text
\* is the subject line followed by the first text/plain part of a
\* multipart message, by nothing when a multipart message has no
\* text/plain part, and by the top-level payload of a message that is not
\* multipart.
C9_EmptyBodyWithoutPlainPart ==
    (output.done /\ output.result.ok) =>
        output.result.text =
            SubjectLine(input.subject) \o
                (IF input.multipart
                 THEN IF FirstPlain(input.payload) # <<>>
                      THEN FirstPlain(input.payload)[1]
                      ELSE <<>>
                 ELSE input.payload)

\* a multipart message without a text/plain part, processed to the subject
\* line alone
C9_Witness ==
    /\ output.done
    /\ output.result.ok
    /\ input.multipart
    /\ FirstPlain(input.payload) = <<>>
    /\ output.result.text = SubjectLine(input.subject)

====
